---- MODULE Spec2Model ----
(***************************************************************************)
(* Model of the podcast processing pipeline: the Project document and its  *)
(* Convex mutations, the Inngest workflow podcastProcessor, the retry      *)
(* function retryJobFunction and the two server actions that send retry    *)
(* events.  One Project is modelled; timestamps (updatedAt, completedAt)   *)
(* and the text of prompts are left out.                                   *)
(***************************************************************************)
EXTENDS Integers, Sequences, FiniteSets, TLC

VARIABLES project, wf, events, runs, actionsLeft, providerCalls,
          userProjects, uploads

vars == <<project, wf, events, runs, actionsLeft, providerCalls,
          userProjects, uploads>>

----------------------------------------------------------------------------
(* Bounds *)

\* number of executions of retryJobFunction the model follows
MaxRuns == 2

\* how many of them may start while podcastProcessor is still running
MaxRunsInWorkflow == 1

\* number of server-action calls (retryJob, generateMissingFeatures) that
\* the model follows along with the workflow; actionsLeft counts them down
MaxActions == 1

\* number of createProjectAction calls the model follows at the same time
MaxUploads == 2

----------------------------------------------------------------------------
(* Program constants *)

\* podcastProcessor: retries: 3 (a step is attempted Retries + 1 times)
Retries == 3

Plans == {"free", "pro", "ultra"}

Jobs == {"summary", "socialPosts", "titles", "hashtags", "keyMoments",
         "youtubeTimestamps"}

FEATURES == {"summary", "social_posts", "titles", "hashtags",
             "youtube_timestamps", "key_moments", "speaker_diarization"}

\* variant: the pro plan is listed without the summary
PLAN_FEATURESProWithoutSummary ==
  [p \in Plans |->
     CASE p = "free"  -> <<"summary">>
       [] p = "pro"   -> <<"social_posts", "titles", "hashtags">>
       [] p = "ultra" -> <<"summary", "social_posts", "titles", "hashtags",
                           "youtube_timestamps", "key_moments",
                           "speaker_diarization">>]

PLAN_FEATURES ==
  [p \in Plans |->
     CASE p = "free"  -> <<"summary">>
       [] p = "pro"   -> <<"summary", "social_posts", "titles", "hashtags">>
       [] p = "ultra" -> <<"summary", "social_posts", "titles", "hashtags",
                           "youtube_timestamps", "key_moments",
                           "speaker_diarization">>]

\* a feature without a job name (speaker_diarization) is not in the domain
FEATURE_TO_JOB_MAP ==
  [f \in FEATURES \ {"speaker_diarization"} |->
     CASE f = "social_posts"       -> "socialPosts"
       [] f = "titles"             -> "titles"
       [] f = "hashtags"           -> "hashtags"
       [] f = "key_moments"        -> "keyMoments"
       [] f = "youtube_timestamps" -> "youtubeTimestamps"
       [] f = "summary"            -> "summary"]

Range(s) == {s[i] : i \in 1..Len(s)}

planHasFeature(plan, feature) == feature \in Range(PLAN_FEATURES[plan])

----------------------------------------------------------------------------
(* Values *)

\* the authenticated callers of the server actions: the user who uploaded
\* the project and another user
Users == {"owner", "other"}
ProjectOwner == "owner"

\* marker of an optional field that is not set (undefined)
Absent == "absent"

\* a map with no keys: {} in the code; an undefined jobErrors field reads
\* as {} everywhere it is used (project.jobErrors || {})
EmptyMap == [k \in {} |-> Absent]

\* m1 overridden by m2 on the keys of m2 (object spread {...m1, ...m2})
Merge(m1, m2) ==
  [k \in (DOMAIN m1) \cup (DOMAIN m2) |->
     IF k \in DOMAIN m2 THEN m2[k] ELSE m1[k]]

\* what the transcription provider can return: text and topic chapters
\* (the text of a transcribed upload is taken to be non-empty)
TranscriptTexts == {"text"}
ChapterLists == {<< >>, <<"chapter">>}

\* what the generative provider can do on one call: return a well-formed
\* response, or fail.  The response of a call is named after the invocation
\* that made it (0 for the workflow, r for retry run r), so the responses of
\* two different invocations are different values
ProviderOutcomes == {"ok", "error"}

ResponseOf(invocation) == <<"response", invocation>>

\* artifact returned by the catch block of the four text tasks
FallbackArtifact == <<"fallback", 0>>

\* no artifact
NoArtifact == <<"none", 0>>

\* a transcript field or an error field that is not set
NoTranscript == [text |-> Absent, chapters |-> << >>]
NoError == [message |-> Absent, step |-> Absent]

MsgNoChaptersTask == "No chapters available from AssemblyAI"
MsgProvider == "provider error"
MsgTranscription == "transcription failed"
MsgNotEntitled == "not available on your current plan. Please upgrade"
MsgNoTranscript == "Project or transcript not found"
MsgEmptyText == "transcript text is empty"
MsgRetryNoChapters == "transcript has no chapters"

----------------------------------------------------------------------------
(* The Project document and the Convex mutations *)

\* createProject: the document inserted on upload
createProject ==
  [userId     |-> ProjectOwner,
   status     |-> "uploaded",
   jobStatus  |-> [transcription |-> "pending", contentGeneration |-> "pending"],
   error      |-> NoError,
   jobErrors  |-> EmptyMap,
   transcript |-> NoTranscript,
   content    |-> EmptyMap]

updateProjectStatus(p, status) == [p EXCEPT !.status = status]

\* variant: the transcript is returned to the workflow and not persisted
saveTranscriptDropped(p, transcript) == p

saveTranscript(p, transcript) == [p EXCEPT !.transcript = transcript]

\* variant: the jobStatus object is rebuilt from the arguments alone
updateJobStatusNoSpread(p, transcription, contentGeneration) ==
  [p EXCEPT !.jobStatus =
     [transcription |-> transcription, contentGeneration |-> contentGeneration]]

\* an argument that is Absent was not passed and leaves the phase alone
updateJobStatus(p, transcription, contentGeneration) ==
  [p EXCEPT !.jobStatus =
     [transcription |->
        IF transcription # Absent THEN transcription ELSE @.transcription,
      contentGeneration |->
        IF contentGeneration # Absent THEN contentGeneration
        ELSE @.contentGeneration]]

\* variant: a field that is already set is kept
saveGeneratedContentKeepsOld(p, content) ==
  [p EXCEPT !.content = Merge(content, @)]

\* variant: the document is replaced by one that holds the content alone
saveGeneratedContentReplacesDocument(p, content) ==
  [p EXCEPT !.content = Merge(@, content), !.transcript = NoTranscript]

\* content holds only the fields that were provided; the others stay
saveGeneratedContent(p, content) ==
  [p EXCEPT !.content = Merge(@, content)]

\* the argument validator of recordError: details is an optional object
recordErrorArgsValid(details) == details \in {Absent, "object"}

\* variant: the status is changed and no error object is stored
recordErrorStatusOnly(p, message, step) == [p EXCEPT !.status = "failed"]

recordError(p, message, step) ==
  [p EXCEPT !.status = "failed",
            !.error = [message |-> message, step |-> step]]

\* variant: saving job errors also marks the project failed
saveJobErrorsMarksFailed(p, jobErrors) ==
  [p EXCEPT !.jobErrors = jobErrors, !.status = "failed"]

\* the patch replaces the whole jobErrors field
saveJobErrors(p, jobErrors) == [p EXCEPT !.jobErrors = jobErrors]

----------------------------------------------------------------------------
(* Generation tasks: the settled promise of one task, given the transcript *)
(* and what the provider does                                              *)

Fulfilled(v) == [status |-> "fulfilled", value |-> v]
Rejected(m) == [status |-> "rejected", value |-> <<"error", m>>]
Pending == [status |-> "pending", value |-> NoArtifact]

\* variant: a text task without the catch block
generateTextTaskThrows(transcript, po, response) ==
  IF po = "error" THEN Rejected(MsgProvider) ELSE Fulfilled(response)

\* summary, socialPosts, titles, hashtags: the whole body is in try/catch
\* and the catch returns a placeholder artifact
generateTextTask(transcript, po, response) ==
  IF po = "error" THEN Fulfilled(FallbackArtifact) ELSE Fulfilled(response)

\* variant: the chapters are not checked
generateYouTubeTimestampsNoCheck(transcript, po, response) ==
  IF po = "error" THEN Rejected(MsgProvider) ELSE Fulfilled(response)

\* the chapter check and the provider call are outside any try/catch
generateYouTubeTimestamps(transcript, po, response) ==
  IF Len(transcript.chapters) = 0 THEN Rejected(MsgNoChaptersTask)
  ELSE IF po = "error" THEN Rejected(MsgProvider)
  ELSE Fulfilled(response)

generateKeyMoments(transcript, po, response) ==
  IF Len(transcript.chapters) = 0 THEN Rejected(MsgNoChaptersTask)
  ELSE IF po = "error" THEN Rejected(MsgProvider)
  ELSE Fulfilled(response)

runJob(job, transcript, po, response) ==
  CASE job = "keyMoments" -> generateKeyMoments(transcript, po, response)
    [] job = "youtubeTimestamps" ->
         generateYouTubeTimestamps(transcript, po, response)
    [] OTHER -> generateTextTask(transcript, po, response)

\* whether the task reaches its call of the generative provider
callsProvider(job, transcript) ==
  job \notin {"keyMoments", "youtubeTimestamps"}
    \/ Len(transcript.chapters) > 0

----------------------------------------------------------------------------
(* The projects table of the uploading user and the upload quota.           *)
(* userProjects holds one row per project of the user, in creation order,   *)
(* with the one field the quota reads; uploads holds the position of each   *)
(* createProjectAction call.                                                *)

\* maxProjects: null (no limit on the number of projects)
Unlimited == -1

\* maxProjects of each plan
PLAN_LIMITS ==
  [p \in Plans |->
     [maxProjects |-> CASE p = "free"  -> 3
                        [] p = "pro"   -> 30
                        [] p = "ultra" -> Unlimited]]

\* the row createProject inserts (deletedAt is not set)
ProjectRow == [deleted |-> FALSE]

\* deleteProject: the row gets a deletedAt and stays in the table
deleteProject(rows, i) == [rows EXCEPT ![i].deleted = TRUE]

getUserProjectCount(rows, includeDeleted) ==
  IF includeDeleted THEN Len(rows)
  ELSE Cardinality({i \in 1..Len(rows) : ~rows[i].deleted})

\* checkUploadLimits: whether the upload is allowed; withinFileLimits stands
\* for the file size and duration tests
checkUploadLimits(plan, rows, withinFileLimits) ==
  LET limits == PLAN_LIMITS[plan]
      includeDeleted == plan = "free"
  IN /\ withinFileLimits
     /\ limits.maxProjects # Unlimited
          => getUserProjectCount(rows, includeDeleted) < limits.maxProjects

IdleUpload == [pc |-> "idle"]

\* the table and the calls in the specifications that follow one project:
\* the project is the user's only row and no other upload is followed
OneProject == <<ProjectRow>>
NoUploads == [c \in 1..MaxUploads |-> IdleUpload]

----------------------------------------------------------------------------
(* podcastProcessor *)

\* plan: (userPlan as PlanName) || "free"
eventPlan(userPlan) == IF userPlan = Absent THEN "free" ELSE userPlan

\* variant: every job is started whatever the plan
jobNamesForAnyPlan(plan) ==
  <<"summary", "socialPosts", "titles", "hashtags", "keyMoments",
    "youtubeTimestamps">>

\* jobNames as pushed at lines 112-145
jobNamesFor(plan) ==
  <<"summary">>
    \o (IF plan = "pro" \/ plan = "ultra"
        THEN <<"socialPosts", "titles", "hashtags">> ELSE << >>)
    \o (IF plan = "ultra" THEN <<"keyMoments", "youtubeTimestamps">> ELSE << >>)

\* variant: every result is copied, fulfilled or not
extractGeneratedUnfiltered(jobNames, results) ==
  [n \in Range(jobNames) |->
     results[CHOOSE i \in 1..Len(jobNames) : jobNames[i] = n].value]

\* results.forEach: fulfilled results by job name
extractGenerated(jobNames, results) ==
  LET idx == {i \in 1..Len(jobNames) : results[i].status = "fulfilled"}
  IN [n \in {jobNames[i] : i \in idx} |->
        results[CHOOSE i \in idx : jobNames[i] = n].value]

\* results.forEach: rejection messages by job name
extractErrors(jobNames, results) ==
  LET idx == {i \in 1..Len(jobNames) : results[i].status = "rejected"}
  IN [n \in {jobNames[i] : i \in idx} |->
        results[CHOOSE i \in idx : jobNames[i] = n].value[2]]

\* variant: Promise.all, which rejects as soon as one job has rejected
allSettledFailFast(results) ==
  IF \E i \in 1..Len(results) : results[i].status = "rejected" THEN "rejected"
  ELSE IF \A i \in 1..Len(results) : results[i].status # "pending"
  THEN "resolved" ELSE "pending"

\* variant: Promise.race, which settles with the first job that settles
allSettledFirstOnly(results) ==
  IF \E i \in 1..Len(results) : results[i].status # "pending"
  THEN "resolved" ELSE "pending"

\* the promise combinator of the fan-out: Promise.allSettled resolves once
\* no result is pending, and never rejects
allSettled(results) ==
  IF \A i \in 1..Len(results) : results[i].status # "pending"
  THEN "resolved" ELSE "pending"

IdleRun ==
  [pc |-> "idle", job |-> Absent, error |-> Absent,
   result |-> NoArtifact, currentErrors |-> EmptyMap]

InitWf(userPlan) ==
  [pc |-> "update-status-processing",
   plan |-> eventPlan(userPlan),
   userPlan |-> userPlan,
   failedAttempts |-> 0,
   transcript |-> NoTranscript,
   jobNames |-> << >>,
   results |-> << >>,
   provider |-> << >>,
   generatedContent |-> EmptyMap,
   jobErrors |-> EmptyMap]

Init ==
  /\ project = createProject
  /\ \E userPlan \in Plans \cup {Absent} : wf = InitWf(userPlan)
  /\ events = {}
  /\ runs = [r \in 1..MaxRuns |-> IdleRun]
  /\ actionsLeft = MaxActions
  /\ providerCalls = 0
  /\ userProjects = OneProject
  /\ uploads = NoUploads

UpdateStatusProcessing ==
  /\ wf.pc = "update-status-processing"
  /\ project' = updateProjectStatus(project, "processing")
  /\ wf' = [wf EXCEPT !.pc = "update-job-status-transcription-running"]
  /\ UNCHANGED <<events, runs, actionsLeft, providerCalls, userProjects, uploads>>

UpdateJobStatusTranscriptionRunning ==
  /\ wf.pc = "update-job-status-transcription-running"
  /\ project' = updateJobStatus(project, "running", Absent)
  /\ wf' = [wf EXCEPT !.pc = "transcribe-audio"]
  /\ UNCHANGED <<events, runs, actionsLeft, providerCalls, userProjects, uploads>>

\* one attempt of the step transcribe-audio that succeeds: the transcript is
\* saved and returned (the engine's attempt counter of the step ends here)
TranscribeOk ==
  /\ wf.pc = "transcribe-audio"
  /\ \E text \in TranscriptTexts, chapters \in ChapterLists :
       LET t == [text |-> text, chapters |-> chapters]
       IN /\ project' = saveTranscript(project, t)
          /\ wf' = [wf EXCEPT !.pc = "update-job-status-transcription-completed",
                              !.failedAttempts = 0,
                              !.transcript = t]
  /\ UNCHANGED <<events, runs, actionsLeft, providerCalls, userProjects, uploads>>

\* variant: the error of the step is swallowed and the workflow goes on
afterFailedAttemptGoesOn(failedAttempts) ==
  "update-job-status-transcription-completed"

\* where the workflow is after the step has thrown failedAttempts times:
\* the step again, or the catch block once the engine's retries are used up
afterFailedAttempt(failedAttempts) ==
  IF failedAttempts > Retries THEN "catch" ELSE "transcribe-audio"

\* one attempt that throws: the catch of transcribeWithAssemblyAI records
\* the error and rethrows; the engine runs the step again while attempts
\* remain, then the error reaches the catch of the workflow
TranscribeFail ==
  /\ wf.pc = "transcribe-audio"
  /\ project' = recordError(project, MsgTranscription, "transcription")
  /\ wf' = [wf EXCEPT !.failedAttempts = @ + 1,
                      !.pc = afterFailedAttempt(wf.failedAttempts + 1)]
  /\ UNCHANGED <<events, runs, actionsLeft, providerCalls, userProjects, uploads>>

\* catch (error) of the workflow: recordError with step "workflow" and
\* details = error.stack (a string, or undefined when the error carries no
\* stack); the mutation's validator rejects a string and that failure is
\* swallowed (cleanupError)
WorkflowCatch ==
  /\ wf.pc = "catch"
  /\ \E details \in {"string", Absent} :
       project' = IF recordErrorArgsValid(details)
                  THEN recordError(project, MsgTranscription, "workflow")
                  ELSE project
  /\ wf' = [wf EXCEPT !.pc = "failed"]
  /\ UNCHANGED <<events, runs, actionsLeft, providerCalls, userProjects, uploads>>

UpdateJobStatusTranscriptionCompleted ==
  /\ wf.pc = "update-job-status-transcription-completed"
  /\ project' = updateJobStatus(project, "completed", Absent)
  /\ wf' = [wf EXCEPT !.pc = "update-job-status-generation-running"]
  /\ UNCHANGED <<events, runs, actionsLeft, providerCalls, userProjects, uploads>>

\* the step, then the jobs of the plan are started (lines 112-145)
UpdateJobStatusGenerationRunning ==
  /\ wf.pc = "update-job-status-generation-running"
  /\ project' = updateJobStatus(project, Absent, "running")
  /\ wf' = [wf EXCEPT !.pc = "fan-out",
                      !.jobNames = jobNamesFor(wf.plan),
                      !.results = [i \in 1..Len(jobNamesFor(wf.plan)) |-> Pending],
                      !.provider =
                         [i \in 1..Len(jobNamesFor(wf.plan)) |-> "notCalled"]]
  /\ UNCHANGED <<events, runs, actionsLeft, providerCalls, userProjects, uploads>>

\* one job of the fan-out settles; wf.provider keeps what the provider did
\* on the call of the job
SettleJob ==
  /\ wf.pc = "fan-out"
  /\ \E i \in 1..Len(wf.jobNames), po \in ProviderOutcomes :
       /\ wf.results[i].status = "pending"
       /\ wf' = [wf EXCEPT !.results[i] =
                              runJob(wf.jobNames[i], wf.transcript, po,
                                     ResponseOf(0)),
                           !.provider[i] =
                              IF callsProvider(wf.jobNames[i], wf.transcript)
                              THEN po ELSE "notCalled"]
       /\ providerCalls' = providerCalls +
            (IF callsProvider(wf.jobNames[i], wf.transcript) THEN 1 ELSE 0)
  /\ UNCHANGED <<project, events, runs, actionsLeft, userProjects, uploads>>

\* await Promise.allSettled(jobs) returns and lines 150-175 run; a rejection
\* of the awaited promise would go to the catch of the workflow
FanOutReturns ==
  /\ wf.pc = "fan-out"
  /\ allSettled(wf.results) # "pending"
  /\ wf' = IF allSettled(wf.results) = "resolved"
           THEN [wf EXCEPT !.pc = "save-job-errors",
                           !.generatedContent =
                              extractGenerated(wf.jobNames, wf.results),
                           !.jobErrors = extractErrors(wf.jobNames, wf.results)]
           ELSE [wf EXCEPT !.pc = "catch"]
  /\ UNCHANGED <<project, events, runs, actionsLeft, providerCalls, userProjects, uploads>>

\* the step runs only if some job failed
SaveJobErrorsStep ==
  /\ wf.pc = "save-job-errors"
  /\ project' = IF DOMAIN wf.jobErrors # {}
                THEN saveJobErrors(project, wf.jobErrors) ELSE project
  /\ wf' = [wf EXCEPT !.pc = "update-job-status-generation-completed"]
  /\ UNCHANGED <<events, runs, actionsLeft, providerCalls, userProjects, uploads>>

UpdateJobStatusGenerationCompleted ==
  /\ wf.pc = "update-job-status-generation-completed"
  /\ project' = updateJobStatus(project, Absent, "completed")
  /\ wf' = [wf EXCEPT !.pc = "save-results-to-convex"]
  /\ UNCHANGED <<events, runs, actionsLeft, providerCalls, userProjects, uploads>>

\* variant: the status is written before the content
saveResultsToConvexStatusFirst(k, p, results) ==
  IF k = 1 THEN updateProjectStatus(p, "completed")
  ELSE saveGeneratedContent(p, results)

\* saveResultsToConvex(projectId, results): its k-th mutation
saveResultsToConvex(k, p, results) ==
  IF k = 1 THEN saveGeneratedContent(p, results)
  ELSE updateProjectStatus(p, "completed")

\* saveResultsToConvex, first mutation
SaveResultsContent ==
  /\ wf.pc = "save-results-to-convex"
  /\ project' = saveResultsToConvex(1, project, wf.generatedContent)
  /\ wf' = [wf EXCEPT !.pc = "save-results-status"]
  /\ UNCHANGED <<events, runs, actionsLeft, providerCalls, userProjects, uploads>>

\* saveResultsToConvex, second mutation
SaveResultsStatus ==
  /\ wf.pc = "save-results-status"
  /\ project' = saveResultsToConvex(2, project, wf.generatedContent)
  /\ wf' = [wf EXCEPT !.pc = "done"]
  /\ UNCHANGED <<events, runs, actionsLeft, providerCalls, userProjects, uploads>>

WorkflowNext ==
  \/ UpdateStatusProcessing
  \/ UpdateJobStatusTranscriptionRunning
  \/ TranscribeOk
  \/ TranscribeFail
  \/ WorkflowCatch
  \/ UpdateJobStatusTranscriptionCompleted
  \/ UpdateJobStatusGenerationRunning
  \/ SettleJob
  \/ FanOutReturns
  \/ SaveJobErrorsStep
  \/ UpdateJobStatusGenerationCompleted
  \/ SaveResultsContent
  \/ SaveResultsStatus

----------------------------------------------------------------------------
(* Server actions that send podcast/retry-job events *)

hasData(p, job) == job \in DOMAIN p.content

\* variant: youtubeTimestamps is not looked at
inferOriginalPlanKeyMomentsOnly(p) ==
  IF hasData(p, "keyMoments") THEN "ultra"
  ELSE IF hasData(p, "socialPosts") \/ hasData(p, "titles")
            \/ hasData(p, "hashtags") THEN "pro"
  ELSE "free"

\* retryJob: the plan inferred from the artifacts that are present
inferOriginalPlan(p) ==
  IF hasData(p, "keyMoments") \/ hasData(p, "youtubeTimestamps") THEN "ultra"
  ELSE IF hasData(p, "socialPosts") \/ hasData(p, "titles")
            \/ hasData(p, "hashtags") THEN "pro"
  ELSE "free"

\* generateMissingFeatures: its own copy of the inference
generateMissingOriginalPlan(p) ==
  IF hasData(p, "keyMoments") \/ hasData(p, "youtubeTimestamps") THEN "ultra"
  ELSE IF hasData(p, "socialPosts") \/ hasData(p, "titles")
            \/ hasData(p, "hashtags") THEN "pro"
  ELSE "free"

RetryEvent(job, userId, originalPlan, currentPlan) ==
  [job |-> job, userId |-> userId, originalPlan |-> originalPlan,
   currentPlan |-> currentPlan]

\* retryJob(projectId, job) by the authenticated user userId whose plan is
\* currentPlan: the events sent (the project is fetched and not compared
\* with the caller)
retryJob(p, userId, job, currentPlan) ==
  {RetryEvent(job, userId, inferOriginalPlan(p), currentPlan)}

\* retryJob called by the owner of the project
RetryJobAction ==
  /\ actionsLeft > 0
  /\ \E job \in Jobs, currentPlan \in Plans :
       events' = events \cup retryJob(project, ProjectOwner, job, currentPlan)
  /\ actionsLeft' = actionsLeft - 1
  /\ UNCHANGED <<project, wf, runs, providerCalls, userProjects, uploads>>

\* variant: the data on the project is not looked at
missingJobsAllOfPlan(p, currentPlan) ==
  LET features == PLAN_FEATURES[currentPlan]
      keep(f) == f \in DOMAIN FEATURE_TO_JOB_MAP
  IN [i \in 1..Len(SelectSeq(features, keep)) |->
        FEATURE_TO_JOB_MAP[SelectSeq(features, keep)[i]]]

\* the jobs of the plan's features whose data is not on the project, in the
\* order of PLAN_FEATURES; a feature without a job name is skipped
missingJobs(p, currentPlan) ==
  LET features == PLAN_FEATURES[currentPlan]
      keep(f) == f \in DOMAIN FEATURE_TO_JOB_MAP
                   /\ ~hasData(p, FEATURE_TO_JOB_MAP[f])
  IN [i \in 1..Len(SelectSeq(features, keep)) |->
        FEATURE_TO_JOB_MAP[SelectSeq(features, keep)[i]]]

\* generateMissingFeatures(projectId) by the authenticated user userId
\* whose plan is currentPlan: the events sent, one per missing job; it
\* throws, sending nothing, when the project is not the caller's and when no
\* job is missing
generateMissingFeatures(p, userId, currentPlan) ==
  IF p.userId # userId THEN {}
  ELSE LET missing == missingJobs(p, currentPlan)
       IN {RetryEvent(missing[i], userId, generateMissingOriginalPlan(p),
                      currentPlan) : i \in 1..Len(missing)}

\* generateMissingFeatures called by the owner of the project
GenerateMissingFeatures ==
  /\ actionsLeft > 0
  /\ \E currentPlan \in Plans :
       events' = events \cup
                   generateMissingFeatures(project, ProjectOwner, currentPlan)
  /\ actionsLeft' = actionsLeft - 1
  /\ UNCHANGED <<project, wf, runs, providerCalls, userProjects, uploads>>

----------------------------------------------------------------------------
(* retryJobFunction.  The engine re-executes the function body from the top *)
(* for every step, replaying finished steps from memory: code outside       *)
(* step.run, such as the getProject query, runs again in each execution.    *)

\* jobToFeature[job]
jobToFeature(job) ==
  IF \E f \in DOMAIN FEATURE_TO_JOB_MAP : FEATURE_TO_JOB_MAP[f] = job
  THEN CHOOSE f \in DOMAIN FEATURE_TO_JOB_MAP : FEATURE_TO_JOB_MAP[f] = job
  ELSE Absent

jobsRequiringChapters == {"keyMoments", "youtubeTimestamps"}

\* variant: the transcript of the project is not checked
retryPreconditionNoTranscriptCheck(p, job, currentPlan) ==
  LET currentUserPlan == eventPlan(currentPlan)
      featureKey == jobToFeature(job)
  IN IF featureKey # Absent /\ ~planHasFeature(currentUserPlan, featureKey)
       THEN MsgNotEntitled
     ELSE IF job \in jobsRequiringChapters /\ Len(p.transcript.chapters) = 0
       THEN MsgRetryNoChapters
     ELSE Absent

\* variant: the plan of the event is not checked
retryPreconditionNoPlanCheck(p, job, currentPlan) ==
  IF p.transcript = NoTranscript THEN MsgNoTranscript
  ELSE IF p.transcript.text = "" THEN MsgEmptyText
  ELSE IF job \in jobsRequiringChapters /\ Len(p.transcript.chapters) = 0
    THEN MsgRetryNoChapters
  ELSE Absent

\* lines 253-306: the error thrown before the try block, or Absent
retryPrecondition(p, job, currentPlan) ==
  LET currentUserPlan == eventPlan(currentPlan)
      featureKey == jobToFeature(job)
  IN IF featureKey # Absent /\ ~planHasFeature(currentUserPlan, featureKey)
       THEN MsgNotEntitled
     ELSE IF p.transcript = NoTranscript THEN MsgNoTranscript
     ELSE IF p.transcript.text = "" THEN MsgEmptyText
     ELSE IF job \in jobsRequiringChapters /\ Len(p.transcript.chapters) = 0
       THEN MsgRetryNoChapters
     ELSE Absent

\* the number of runs the model lets start in the current state
RunLimit ==
  IF wf.pc \in {"done", "failed"} THEN MaxRuns
  ELSE IF MaxRunsInWorkflow < MaxRuns THEN MaxRunsInWorkflow ELSE MaxRuns

\* the engine starts a run for a pending event: the checks before the try
\* block, then the generation of the job
RetryStart ==
  \E r \in 1..MaxRuns, ev \in events, po \in ProviderOutcomes :
    /\ runs[r].pc = "idle"
    /\ \A q \in 1..MaxRuns : q < r => runs[q].pc # "idle"
    /\ r <= RunLimit
    /\ events' = events \ {ev}
    /\ LET pre == retryPrecondition(project, ev.job, ev.currentPlan)
           res == runJob(ev.job, project.transcript, po, ResponseOf(r))
           base == [IdleRun EXCEPT !.job = ev.job]
       IN IF pre # Absent
          THEN /\ runs' = [runs EXCEPT ![r] =
                              [base EXCEPT !.pc = "threw", !.error = pre]]
               /\ UNCHANGED providerCalls
          ELSE /\ runs' = [runs EXCEPT ![r] =
                   IF res.status = "fulfilled"
                   THEN [base EXCEPT !.pc = "save", !.result = res.value]
                   ELSE [base EXCEPT !.pc = "catch", !.error = res.value[2]]]
               /\ providerCalls' = providerCalls +
                    (IF callsProvider(ev.job, project.transcript) THEN 1 ELSE 0)
    /\ UNCHANGED <<project, wf, actionsLeft, userProjects, uploads>>

\* step save-<job>: saveGeneratedContent with the one artifact
RetrySave ==
  \E r \in 1..MaxRuns :
    /\ runs[r].pc = "save"
    /\ project' = saveGeneratedContent(project,
                     [k \in {runs[r].job} |-> runs[r].result])
    /\ runs' = [runs EXCEPT ![r].pc = "query"]
    /\ UNCHANGED <<wf, events, actionsLeft, providerCalls, userProjects, uploads>>

\* the getProject query of the execution that runs step clear-job-error
RetryQuery ==
  \E r \in 1..MaxRuns :
    /\ runs[r].pc = "query"
    /\ runs' = [runs EXCEPT ![r].pc = "clear-job-error",
                            ![r].currentErrors = project.jobErrors]
    /\ UNCHANGED <<project, wf, events, actionsLeft, providerCalls, userProjects, uploads>>

\* variant: the entry of the job is not deleted
updatedErrorsKeepsJob(currentErrors, job) == currentErrors

\* updatedErrors: currentErrors without the job
updatedErrors(currentErrors, job) ==
  [k \in (DOMAIN currentErrors) \ {job} |-> currentErrors[k]]

\* step clear-job-error
RetryClearJobError ==
  \E r \in 1..MaxRuns :
    /\ runs[r].pc = "clear-job-error"
    /\ project' = saveJobErrors(project,
                     updatedErrors(runs[r].currentErrors, runs[r].job))
    /\ runs' = [runs EXCEPT ![r].pc = "done", ![r].currentErrors = EmptyMap]
    /\ UNCHANGED <<wf, events, actionsLeft, providerCalls, userProjects, uploads>>

\* the jobErrors argument built in the catch block
catchJobErrors(p, job, errorMessage) == [k \in {job} |-> errorMessage]

\* catch (error): saveJobErrors, then the error is rethrown
RetryCatch ==
  \E r \in 1..MaxRuns :
    /\ runs[r].pc = "catch"
    /\ project' = saveJobErrors(project,
                     catchJobErrors(project, runs[r].job, runs[r].error))
    /\ runs' = [runs EXCEPT ![r].pc = "threw"]
    /\ UNCHANGED <<wf, events, actionsLeft, providerCalls, userProjects, uploads>>

RetryNext ==
  \/ RetryJobAction
  \/ GenerateMissingFeatures
  \/ RetryStart
  \/ RetrySave
  \/ RetryQuery
  \/ RetryClearJobError
  \/ RetryCatch

Next == WorkflowNext \/ RetryNext


Spec == Init /\ [][Next]_vars

\* podcastProcessor alone, with no retry event sent.  The workflow takes
\* every step it can take: the engine runs each step of a started function
\* and gives up on a step only after Retries + 1 attempts
WorkflowSpec == Init /\ [][WorkflowNext]_vars /\ WF_vars(WorkflowNext)

----------------------------------------------------------------------------
(* Retries on a project whose workflow has finished: the states in which    *)
(* podcastProcessor has returned, computed with the operators of its steps, *)
(* followed by server actions and runs of retryJobFunction alone.           *)

\* number of server-action calls followed on a finished project
MaxRetryActions == 2

\* the workflow after its last step, when transcription gave transcript and
\* the provider did po[i] on the call of the i-th job
FinishedWf(userPlan, transcript, po) ==
  LET names == jobNamesFor(eventPlan(userPlan))
      results == [i \in 1..Len(names) |->
                    runJob(names[i], transcript, po[i], ResponseOf(0))]
  IN [InitWf(userPlan) EXCEPT
        !.pc = "done",
        !.transcript = transcript,
        !.jobNames = names,
        !.results = results,
        !.provider = [i \in 1..Len(names) |->
                        IF callsProvider(names[i], transcript)
                        THEN po[i] ELSE "notCalled"],
        !.generatedContent = extractGenerated(names, results),
        !.jobErrors = extractErrors(names, results)]

\* the project after the mutations of the steps of that workflow, in order
FinishedProject(w) ==
  LET p1 == updateProjectStatus(createProject, "processing")
      p2 == updateJobStatus(p1, "running", Absent)
      p3 == saveTranscript(p2, w.transcript)
      p4 == updateJobStatus(p3, "completed", Absent)
      p5 == updateJobStatus(p4, Absent, "running")
      p6 == IF DOMAIN w.jobErrors # {} THEN saveJobErrors(p5, w.jobErrors)
            ELSE p5
      p7 == updateJobStatus(p6, Absent, "completed")
      p8 == saveResultsToConvex(1, p7, w.generatedContent)
  IN saveResultsToConvex(2, p8, w.generatedContent)

\* the provider calls that workflow made
FinishedProviderCalls(w) ==
  Cardinality({i \in 1..Len(w.jobNames) : w.provider[i] # "notCalled"})

RetryInit ==
  /\ \E userPlan \in Plans, text \in TranscriptTexts,
        chapters \in ChapterLists, o \in ProviderOutcomes :
       LET w == FinishedWf(userPlan,
                           [text |-> text, chapters |-> chapters],
                           [i \in 1..Len(jobNamesFor(userPlan)) |-> o])
       IN /\ wf = w
          /\ project = FinishedProject(w)
          /\ providerCalls = FinishedProviderCalls(w)
  /\ events = {}
  /\ runs = [r \in 1..MaxRuns |-> IdleRun]
  /\ actionsLeft = MaxRetryActions
  /\ userProjects = OneProject
  /\ uploads = NoUploads

RetrySpec == RetryInit /\ [][RetryNext]_vars

----------------------------------------------------------------------------
(* generateSocialPosts and the twitter field of its result.  A text is a    *)
(* sequence of character codes; the other five fields are left out.         *)

\* lengths of the twitter text tried in the provider's response
MinTwitterLen == 240
MaxTwitterLen == 320

\* z.string().max(280) and the length test of the safety check
TwitterMaxLength == 280

\* substring(0, 277)
TwitterKeptLength == 277

\* "..."
EllipsisMarker == <<46, 46, 46>>

\* a text of n characters in which the character depends on the position
ProviderText(n) == [i \in 1..n |-> 97 + (i % 26)]

\* twitter: "New podcast episode!" (when the response has no content)
FallbackTwitterPost == [i \in 1..20 |-> 78]

\* twitter of the catch block: a warning sign (six code units as the file
\* has it) and " Error generating social post. Check logs for details."
ErrorTwitterPost == [i \in 1..60 |-> 69]

\* socialPostsSchema.parse: whether the twitter field passes the schema
socialPostsSchemaAccepts(twitter) == Len(twitter) <= TwitterMaxLength

\* generateSocialPosts: the twitter field of the returned posts, given what
\* the provider did; a schema error is thrown inside the try block
generateSocialPosts(po, response) ==
  IF po = "error" THEN ErrorTwitterPost
  ELSE IF response.content = Absent THEN FallbackTwitterPost
  ELSE IF ~socialPostsSchemaAccepts(response.twitter) THEN ErrorTwitterPost
  ELSE IF Len(response.twitter) > TwitterMaxLength
    THEN SubSeq(response.twitter, 1, TwitterKeptLength) \o EllipsisMarker
  ELSE response.twitter

\* what the provider can return on the call
SocialResponses ==
  {[content |-> Absent, twitter |-> << >>]}
    \cup {[content |-> "json", twitter |-> ProviderText(n)] :
             n \in MinTwitterLen..MaxTwitterLen}

SocialPostsInit ==
  /\ project = createProject
  /\ \E po \in ProviderOutcomes, response \in SocialResponses :
       wf = [pc |-> "generate-social-posts-with-gpt", po |-> po,
             response |-> response, twitter |-> << >>]
  /\ events = {}
  /\ runs = [r \in 1..MaxRuns |-> IdleRun]
  /\ actionsLeft = 0
  /\ providerCalls = 0
  /\ userProjects = OneProject
  /\ uploads = NoUploads

\* one call of generateSocialPosts
GenerateSocialPostsCall ==
  /\ wf.pc = "generate-social-posts-with-gpt"
  /\ wf' = [wf EXCEPT !.pc = "returned",
                      !.twitter = generateSocialPosts(wf.po, wf.response)]
  /\ providerCalls' = providerCalls + 1
  /\ UNCHANGED <<project, events, runs, actionsLeft, userProjects, uploads>>

SocialPostsSpec == SocialPostsInit /\ [][GenerateSocialPostsCall]_vars

----------------------------------------------------------------------------
(* The two server actions alone, called by any authenticated user on a      *)
(* project with any combination of artifacts.  Retries sent by an upgraded  *)
(* user can put any artifact on a project: beside the summary of a finished *)
(* workflow, or while the summary of a running workflow is pending.         *)

\* the transcript of the projects the actions are called on
ActionsTranscript == [text |-> "text", chapters |-> <<"chapter">>]

\* a free-plan workflow whose fan-out is running
FanOutWf ==
  [InitWf("free") EXCEPT !.pc = "fan-out",
                         !.transcript = ActionsTranscript,
                         !.jobNames = jobNamesFor("free"),
                         !.results = <<Pending>>,
                         !.provider = <<"notCalled">>]

\* the project after the mutations of the steps up to the fan-out
FanOutProject ==
  LET p1 == updateProjectStatus(createProject, "processing")
      p2 == updateJobStatus(p1, "running", Absent)
      p3 == saveTranscript(p2, ActionsTranscript)
      p4 == updateJobStatus(p3, "completed", Absent)
  IN updateJobStatus(p4, Absent, "running")

\* the artifacts named in present, as saved by retry runs
ArtifactsOf(present) == [k \in present |-> ResponseOf(1)]

ActionsInit ==
  /\ \E present \in SUBSET Jobs :
       IF "summary" \in present
       THEN LET w == FinishedWf("free", ActionsTranscript, <<"ok">>)
            IN /\ wf = w
               /\ project = saveGeneratedContent(FinishedProject(w),
                               ArtifactsOf(present \ {"summary"}))
               /\ providerCalls = Cardinality(present)
       ELSE /\ wf = FanOutWf
            /\ project = saveGeneratedContent(FanOutProject,
                            ArtifactsOf(present))
            /\ providerCalls = Cardinality(present)
  /\ events = {}
  /\ runs = [r \in 1..MaxRuns |-> IdleRun]
  /\ actionsLeft = MaxActions
  /\ userProjects = OneProject
  /\ uploads = NoUploads

\* retryJob called by any authenticated user
RetryJobCall ==
  /\ actionsLeft > 0
  /\ \E userId \in Users, job \in Jobs, currentPlan \in Plans :
       events' = events \cup retryJob(project, userId, job, currentPlan)
  /\ actionsLeft' = actionsLeft - 1
  /\ UNCHANGED <<project, wf, runs, providerCalls, userProjects, uploads>>

\* generateMissingFeatures called by any authenticated user
GenerateMissingFeaturesCall ==
  /\ actionsLeft > 0
  /\ \E userId \in Users, currentPlan \in Plans :
       events' = events \cup
                   generateMissingFeatures(project, userId, currentPlan)
  /\ actionsLeft' = actionsLeft - 1
  /\ UNCHANGED <<project, wf, runs, providerCalls, userProjects, uploads>>

ActionsNext == RetryJobCall \/ GenerateMissingFeaturesCall

ActionsSpec == ActionsInit /\ [][ActionsNext]_vars

----------------------------------------------------------------------------
(* Uploads and deletions by one user on the free plan: createProjectAction  *)
(* asks checkUploadLimits (a query) and then calls createProject (a         *)
(* mutation); deleteProjectAction soft-deletes a project of the user.       *)

\* the plan of the uploading user
UploaderPlan == "free"

\* the tables a free user can have: up to maxProjects rows, deleted or not
QuotaTables ==
  UNION {[1..n -> {[deleted |-> d] : d \in BOOLEAN}] :
           n \in 0..PLAN_LIMITS[UploaderPlan].maxProjects}

QuotaInit ==
  /\ project = createProject
  /\ wf = InitWf(UploaderPlan)
  /\ events = {}
  /\ runs = [r \in 1..MaxRuns |-> IdleRun]
  /\ actionsLeft = 0
  /\ providerCalls = 0
  /\ userProjects \in QuotaTables
  /\ uploads = NoUploads

\* createProjectAction up to the answer of checkUploadLimits
CheckUploadLimits ==
  \E c \in 1..MaxUploads, withinFileLimits \in BOOLEAN :
    /\ uploads[c].pc = "idle"
    /\ uploads' = [uploads EXCEPT ![c].pc =
                     IF checkUploadLimits(UploaderPlan, userProjects,
                                          withinFileLimits)
                     THEN "allowed" ELSE "threw"]
    /\ UNCHANGED <<project, wf, events, runs, actionsLeft, providerCalls,
                   userProjects>>

\* createProjectAction from the createProject mutation on
CreateProject ==
  \E c \in 1..MaxUploads :
    /\ uploads[c].pc = "allowed"
    /\ userProjects' = Append(userProjects, ProjectRow)
    /\ uploads' = [uploads EXCEPT ![c].pc = "created"]
    /\ UNCHANGED <<project, wf, events, runs, actionsLeft, providerCalls>>

\* deleteProjectAction on a project of the user
DeleteProjectAction ==
  \E i \in 1..Len(userProjects) :
    /\ userProjects' = deleteProject(userProjects, i)
    /\ UNCHANGED <<project, wf, events, runs, actionsLeft, providerCalls,
                   uploads>>

QuotaNext == CheckUploadLimits \/ CreateProject \/ DeleteProjectAction

QuotaSpec == QuotaInit /\ [][QuotaNext]_vars

----------------------------------------------------------------------------
(* Properties *)

TextJobs == {"summary", "socialPosts", "titles", "hashtags"}

FinishedPcs == {"done", "threw"}

\* the messages with which a generation task rejects inside the try block
\* of retryJobFunction
GenerationErrors == {MsgProvider, MsgNoChaptersTask}

\* C1: once the transcription stage has succeeded (the transcript is
\* saved), status eventually becomes completed, whatever the generation
\* tasks do; and status becomes failed only by a failing transcription
\* attempt, never by a generation task.
C1_TranscribedLeadsToCompleted ==
  /\ (project.transcript # NoTranscript) ~> (project.status = "completed")
  /\ [][(project.status # "failed" /\ project'.status = "failed")
          => wf.pc = "transcribe-audio"]_vars

\* a run in which a generation task failed and the project is completed
C1_Witness ==
  /\ wf.pc = "done"
  /\ DOMAIN wf.jobErrors # {}
  /\ project.status = "completed"

\* C2: as long as no transcription attempt has succeeded (in particular in
\* every state of a run whose transcription stage fails), the generative
\* provider has not been called.
C2_NoGenerationWithoutTranscript ==
  project.transcript = NoTranscript => providerCalls = 0

\* the workflow has given up on transcription and a retry event for the
\* project has been processed
C2_Witness ==
  /\ wf.pc = "failed"
  /\ \E r \in 1..MaxRuns : runs[r].pc = "threw"
  /\ providerCalls = 0

\* the provider call of each of the four text tasks failed in the fan-out
\* of a pro-plan workflow that has finished
ProAllFourFailed ==
  /\ wf.pc = "done"
  /\ wf.plan = "pro"
  /\ \A i \in 1..Len(wf.jobNames) : wf.provider[i] = "error"

C4_NoChaptersRetryRecorded ==
  [][\A r \in 1..MaxRuns :
       (/\ project.status = "completed"
        /\ runs[r].pc = "idle"
        /\ runs'[r].pc = "threw"
        /\ runs'[r].job = "youtubeTimestamps"
        /\ runs'[r].error = MsgRetryNoChapters)
       => (/\ "youtubeTimestamps" \in DOMAIN project'.jobErrors
           /\ project'.status = "completed")]_vars

\* C5: once the workflow and every retry run have finished, and the runs
\* were for distinct jobs, jobErrors has no entry for a job whose run
\* succeeded and has an entry for a job whose generation failed in its run.
\* (Stated for projects whose workflow saved no jobErrors, so that the only
\* writers of jobErrors are the retry runs, and for the jobs whose task is
\* in the source.)
C5_ConcurrentRetriesKeepJobErrors ==
  (/\ wf.pc = "done"
   /\ DOMAIN wf.jobErrors = {}
   /\ \A r \in 1..MaxRuns : runs[r].job # "keyMoments"
   /\ \A r \in 1..MaxRuns : runs[r].pc \in FinishedPcs
   /\ \A r, q \in 1..MaxRuns : r # q => runs[r].job # runs[q].job)
  => \A r \in 1..MaxRuns :
       /\ runs[r].pc = "done" => runs[r].job \notin DOMAIN project.jobErrors
       /\ (runs[r].pc = "threw" /\ runs[r].error \in GenerationErrors)
            => runs[r].job \in DOMAIN project.jobErrors

\* C6: status changes only along uploaded -> processing,
\* processing -> completed and processing -> failed.
C6_StatusTransitions ==
  [][\/ project'.status = project.status
     \/ <<project.status, project'.status>> \in
          {<<"uploaded", "processing">>, <<"processing", "completed">>,
           <<"processing", "failed">>}]_vars

\* C7: status = completed implies jobStatus.transcription = completed.
C7_CompletedImpliesTranscribed ==
  project.status = "completed" => project.jobStatus.transcription = "completed"

C7_Witness ==
  project.status = "completed" /\ project.jobStatus.transcription = "completed"

\* C8: status = failed implies that the project-level error is set or
\* jobErrors is non-empty.
C8_FailedHasError ==
  project.status = "failed"
    => (project.error # NoError \/ DOMAIN project.jobErrors # {})

C8_Witness == project.status = "failed" /\ project.error # NoError

\* C9: after the fan-out has settled, the job names of generatedContent and
\* of jobErrors partition the launched job names.
C9_FanOutPartition ==
  wf.pc \in {"save-job-errors", "update-job-status-generation-completed",
             "save-results-to-convex", "save-results-status", "done"}
    => /\ (DOMAIN wf.generatedContent) \cup (DOMAIN wf.jobErrors)
            = Range(wf.jobNames)
       /\ (DOMAIN wf.generatedContent) \cap (DOMAIN wf.jobErrors) = {}

\* a settled fan-out with a succeeded and a failed job
C9_Witness ==
  /\ wf.pc = "save-job-errors"
  /\ DOMAIN wf.generatedContent # {}
  /\ DOMAIN wf.jobErrors # {}

\* C10 as stated: whenever contentGeneration = completed, every artifact
\* that succeeded in the fan-out is on the project
C10_Original ==
  project.jobStatus.contentGeneration = "completed"
    => DOMAIN wf.generatedContent \subseteq DOMAIN project.content

\* C10 (amended): contentGeneration = completed is written before the
\* succeeded artifacts are persisted, and status = completed is written
\* last: whenever status = completed, contentGeneration is completed and
\* every artifact that succeeded in the fan-out is on the project.
C10_ArtifactsBeforeCompleted ==
  project.status = "completed"
    => /\ project.jobStatus.contentGeneration = "completed"
       /\ DOMAIN wf.generatedContent \subseteq DOMAIN project.content

C10_Witness ==
  /\ project.status = "completed"
  /\ DOMAIN wf.generatedContent # {}
  /\ DOMAIN wf.jobErrors # {}

\* C11: when the workflow has ended because transcription failed, status is
\* failed and the step of the project-level error is "transcription".
C11_FailedStepIsTranscription ==
  wf.pc = "failed"
    => /\ project.status = "failed"
       /\ project.error.step = "transcription"

\* C12: when the workflow has ended because transcription failed,
\* jobStatus.transcription is failed.
C12_FailedTranscriptionMarked ==
  wf.pc = "failed" => project.jobStatus.transcription = "failed"

\* C13: the workflow has launched no generation task, and contentGeneration
\* has not left pending, unless the transcript is on the project and
\* jobStatus.transcription is completed.
C13_TranscriptionPrecedesGeneration ==
  (Len(wf.results) > 0 \/ project.jobStatus.contentGeneration # "pending")
    => /\ project.transcript # NoTranscript
       /\ project.jobStatus.transcription = "completed"

\* the fan-out is running and one of its tasks has settled
C13_Witness ==
  /\ wf.pc = "fan-out"
  /\ \E i \in 1..Len(wf.results) : wf.results[i].status # "pending"
  /\ project.jobStatus.contentGeneration = "running"
  /\ project.transcript # NoTranscript

\* C14: when the provider returns a twitter text longer than 280 characters,
\* the returned twitter field has exactly 280 characters, the first 277 of
\* the provider's text followed by the ellipsis marker, after one call.
C14_TwitterTruncatedTo280 ==
  (/\ wf.pc = "returned"
   /\ wf.po = "ok"
   /\ wf.response.content # Absent
   /\ Len(wf.response.twitter) > 280)
  => /\ Len(wf.twitter) = 280
     /\ wf.twitter = SubSeq(wf.response.twitter, 1, 277) \o <<46, 46, 46>>
     /\ providerCalls = 1

\* C15: when a retry run for a task saves its artifact after an earlier
\* retry run for the same task has finished, the artifact on the project,
\* which was the output of the earlier run, becomes the output of the later
\* run as a whole value, and no other artifact changes.
C15_SecondRetryReplacesArtifact ==
  [][\A r, q \in 1..MaxRuns :
       (/\ r # q
        /\ runs[q].pc = "done"
        /\ runs[q].job = runs[r].job
        /\ runs[r].pc = "save"
        /\ runs'[r].pc = "query")
       => /\ project.content[runs[r].job] = runs[q].result
          /\ project'.content =
               [project.content EXCEPT ![runs[r].job] = runs[r].result]]_vars

\* the second of two retries of one task has saved an output that differs
\* from the output of the first, which had finished
C15_Witness ==
  /\ runs[1].pc = "done"
  /\ runs[2].pc = "query"
  /\ runs[1].job = runs[2].job
  /\ runs[1].result # runs[2].result
  /\ project.content[runs[2].job] = runs[2].result

\* the tasks a tier is entitled to
EntitledTasks(plan) ==
  CASE plan = "free"  -> {"summary"}
    [] plan = "pro"   -> {"summary", "socialPosts", "titles", "hashtags"}
    [] plan = "ultra" -> Jobs

\* the retry events for the tasks entitled under plan whose artifact is not
\* on project p
EventsForMissing(p, plan) ==
  {RetryEvent(j, p.userId, inferOriginalPlan(p), plan) :
     j \in {t \in EntitledTasks(plan) : t \notin DOMAIN p.content}}

C17_FailedPreconditionsTouchNothing ==
  [][\A r \in 1..MaxRuns, ev \in events :
       (/\ runs[r].pc = "idle"
        /\ runs'[r].pc # "idle"
        /\ ev \notin events'
        /\ \/ project.transcript = NoTranscript
           \/ ev.job \notin EntitledTasks(ev.currentPlan))
       => /\ runs'[r].pc = "threw"
          /\ runs'[r].error =
               IF ev.job \notin EntitledTasks(ev.currentPlan)
               THEN MsgNotEntitled ELSE MsgNoTranscript
          /\ providerCalls' = providerCalls
          /\ project' = project]_vars

\* a retry run has ended with the missing-transcript error on a project
\* whose transcription failed
C17_Witness ==
  /\ project.transcript = NoTranscript
  /\ project.status = "failed"
  /\ \E r \in 1..MaxRuns :
       runs[r].pc = "threw" /\ runs[r].error = MsgNoTranscript
  /\ project.content = EmptyMap

\* C18: no step of a retry run changes status, jobStatus or the
\* project-level error.
C18_RetryKeepsStatus ==
  [][runs' # runs
       => /\ project'.status = project.status
          /\ project'.jobStatus = project.jobStatus
          /\ project'.error = project.error]_vars

\* one retry run has failed in generation and another has succeeded, on a
\* completed project
C18_Witness ==
  /\ project.status = "completed"
  /\ \E r \in 1..MaxRuns :
       runs[r].pc = "threw" /\ runs[r].error \in GenerationErrors
  /\ \E r \in 1..MaxRuns : runs[r].pc = "done"

\* C19: the catch block of a failed retry run for task X sets jobErrors[X]
\* and leaves the jobErrors entries of the other tasks and all artifacts
\* unchanged.
C19_FailedRetryKeepsOtherErrors ==
  [][\A r \in 1..MaxRuns :
       (runs[r].pc = "catch" /\ runs'[r].pc = "threw")
       => /\ runs[r].job \in DOMAIN project'.jobErrors
          /\ \A k \in (DOMAIN project.jobErrors) \ {runs[r].job} :
               /\ k \in DOMAIN project'.jobErrors
               /\ project'.jobErrors[k] = project.jobErrors[k]
          /\ project'.content = project.content]_vars

\* C20: when the only retry run started on a finished project has
\* succeeded for task X, the project has the run's artifact for X, no
\* jobErrors entry for X, and the artifacts and jobErrors entries of the
\* other tasks as the workflow left them.
C20_SuccessfulRetryFrame ==
  (runs[1].pc = "done" /\ runs[2].pc = "idle")
  => /\ project.content =
          Merge(wf.generatedContent,
                [k \in {runs[1].job} |-> runs[1].result])
     /\ project.jobErrors =
          [k \in (DOMAIN wf.jobErrors) \ {runs[1].job} |-> wf.jobErrors[k]]

\* a retry of youtubeTimestamps has succeeded on a project that had
\* jobErrors entries for keyMoments and youtubeTimestamps
C20_Witness ==
  /\ runs[1].pc = "done"
  /\ runs[2].pc = "idle"
  /\ runs[1].job = "youtubeTimestamps"
  /\ DOMAIN wf.jobErrors = {"keyMoments", "youtubeTimestamps"}
  /\ DOMAIN project.jobErrors = {"keyMoments"}

\* the job names of the features of a plan: the image of PLAN_FEATURES[plan]
\* under FEATURE_TO_JOB_MAP
entitledJobs(plan) ==
  {FEATURE_TO_JOB_MAP[f] :
     f \in Range(PLAN_FEATURES[plan]) \cap DOMAIN FEATURE_TO_JOB_MAP}

\* C21: the features, and so the tasks, of the free plan are among those of
\* the pro plan, which are among those of the ultra plan (stated on the plan
\* of the workflow's event, which takes each of the three values).
C21_EntitlementMonotonic ==
  /\ wf.plan \in {"pro", "ultra"}
       => /\ Range(PLAN_FEATURES["free"]) \subseteq Range(PLAN_FEATURES[wf.plan])
          /\ entitledJobs("free") \subseteq entitledJobs(wf.plan)
  /\ wf.plan = "ultra"
       => /\ Range(PLAN_FEATURES["pro"]) \subseteq Range(PLAN_FEATURES[wf.plan])
          /\ entitledJobs("pro") \subseteq entitledJobs(wf.plan)

\* an ultra-plan fan-out is running: its tasks are more than those of the
\* pro plan, which are more than those of the free plan
C21_Witness ==
  /\ wf.pc = "fan-out"
  /\ wf.plan = "ultra"
  /\ Range(wf.jobNames) = entitledJobs("ultra")
  /\ entitledJobs("free") # entitledJobs("pro")
  /\ entitledJobs("pro") # entitledJobs("ultra")

\* C22: the tasks the workflow has launched are, each once, the job names
\* the tier configuration gives for the plan of the event, and for the free
\* plan when the event carries no plan.
C22_LaunchedEqualsEntitled ==
  Len(wf.jobNames) > 0
    => /\ Range(wf.jobNames) =
            entitledJobs(IF wf.userPlan = Absent THEN "free" ELSE wf.userPlan)
       /\ Len(wf.jobNames) = Cardinality(Range(wf.jobNames))

\* the workflow of an event without a plan has launched the summary alone
C22_Witness ==
  /\ wf.userPlan = Absent
  /\ wf.pc = "fan-out"
  /\ Range(wf.jobNames) = {"summary"}

\* the positions of the workflow after the await of the fan-out has returned
AfterFanOutPcs ==
  {"save-job-errors", "update-job-status-generation-completed",
   "save-results-to-convex", "save-results-status", "done"}

\* C23: while a launched task has not settled (or none is launched yet) the
\* workflow has written no artifact, no jobErrors, no contentGeneration =
\* completed and no status = completed; once the fan-out has returned every
\* launched task has settled with its own outcome, which is collected in
\* generatedContent or in jobErrors; and the workflow never goes to its
\* catch block from the fan-out.
C23_SettleAll ==
  /\ (Len(wf.results) = 0
        \/ \E i \in 1..Len(wf.results) : wf.results[i].status = "pending")
       => /\ project.content = EmptyMap
          /\ project.jobErrors = EmptyMap
          /\ project.jobStatus.contentGeneration # "completed"
          /\ project.status # "completed"
  /\ wf.pc \in AfterFanOutPcs
       => \A i \in 1..Len(wf.jobNames) :
            /\ wf.results[i] =
                 runJob(wf.jobNames[i], wf.transcript,
                        IF wf.provider[i] = "notCalled" THEN "ok"
                        ELSE wf.provider[i],
                        ResponseOf(0))
            /\ wf.results[i].status = "fulfilled"
                 => /\ wf.jobNames[i] \in DOMAIN wf.generatedContent
                    /\ wf.generatedContent[wf.jobNames[i]] = wf.results[i].value
            /\ wf.results[i].status = "rejected"
                 => /\ wf.jobNames[i] \in DOMAIN wf.jobErrors
                    /\ wf.jobErrors[wf.jobNames[i]] = wf.results[i].value[2]
  /\ wf.pc \in {"catch", "failed"} => Len(wf.results) = 0

\* an ultra workflow has finished in which youtubeTimestamps failed and the
\* provider answered the summary: both outcomes are on the project
C23_Witness ==
  /\ wf.pc = "done"
  /\ wf.plan = "ultra"
  /\ "youtubeTimestamps" \in DOMAIN project.jobErrors
  /\ "summary" \in DOMAIN project.content
  /\ project.content["summary"] = ResponseOf(0)
  /\ project.status = "completed"

\* the tier the artifacts on project p stand for
TierOfArtifacts(p) ==
  IF (DOMAIN p.content) \cap {"keyMoments", "youtubeTimestamps"} # {}
    THEN "ultra"
  ELSE IF (DOMAIN p.content) \cap {"socialPosts", "titles", "hashtags"} # {}
    THEN "pro"
  ELSE "free"

\* C24: for every combination of artifacts on the project, the inference of
\* retryJob and the inference of generateMissingFeatures both give ultra
\* when keyMoments or youtubeTimestamps is present, otherwise pro when
\* socialPosts, titles or hashtags is present, otherwise free; and every
\* event either action has sent carries that tier as originalPlan.
C24_InferOriginalTier ==
  /\ inferOriginalPlan(project) = TierOfArtifacts(project)
  /\ generateMissingOriginalPlan(project) = TierOfArtifacts(project)
  /\ \A ev \in events : ev.originalPlan = TierOfArtifacts(project)

\* retryJob has sent an event for a project that has youtubeTimestamps and
\* no keyMoments
C24_Witness ==
  /\ DOMAIN project.content = {"summary", "youtubeTimestamps"}
  /\ \E ev \in events : ev.originalPlan = "ultra" /\ ev.job = "summary"

\* C29: every podcast/retry-job event sent by retryJob or by
\* generateMissingFeatures was sent by the owner of the project: a caller
\* whose userId differs from project.userId is rejected with no event sent.
C29_OnlyOwnerSendsRetry ==
  \A ev \in events : ev.userId = project.userId

\* C25: on a transcript with no chapters, youtubeTimestamps fails with the
\* no-chapters error of the task (in the fan-out) or of the retry function
\* (in a retry run) and makes no provider call, while summary, socialPosts,
\* titles and hashtags call the provider and return an artifact.
C25_NoChaptersFailFast ==
  /\ [](\A i \in 1..Len(wf.jobNames) :
          (Len(wf.transcript.chapters) = 0 /\ wf.results[i].status # "pending")
          => /\ (wf.jobNames[i] = "youtubeTimestamps")
                  => (/\ wf.results[i] = Rejected(MsgNoChaptersTask)
                      /\ wf.provider[i] = "notCalled")
             /\ (wf.jobNames[i] \in TextJobs)
                  => (/\ wf.results[i].status = "fulfilled"
                      /\ wf.provider[i] \in ProviderOutcomes
                      /\ (wf.provider[i] = "ok"
                            => wf.results[i].value = ResponseOf(0))))
  /\ [][\A i \in 1..Len(wf.jobNames) :
           (/\ Len(wf.transcript.chapters) = 0
            /\ wf.results[i].status = "pending"
            /\ wf'.results[i].status # "pending")
           => /\ (wf.jobNames[i] = "youtubeTimestamps")
                   => (providerCalls' = providerCalls)
              /\ (wf.jobNames[i] \in TextJobs)
                   => (providerCalls' = providerCalls + 1)]_vars
  /\ [][\A r \in 1..MaxRuns, ev \in events :
           (/\ runs[r].pc = "idle"
            /\ runs'[r].pc # "idle"
            /\ ev \notin events'
            /\ project.transcript # NoTranscript
            /\ Len(project.transcript.chapters) = 0
            /\ ev.job \in EntitledTasks(ev.currentPlan))
           => /\ (ev.job = "youtubeTimestamps")
                   => (/\ runs'[r].pc = "threw"
                       /\ runs'[r].error = MsgRetryNoChapters
                       /\ providerCalls' = providerCalls)
              /\ (ev.job \in TextJobs)
                   => (/\ runs'[r].pc = "save"
                       /\ runs'[r].result \in {ResponseOf(r), FallbackArtifact}
                       /\ providerCalls' = providerCalls + 1)]_vars

\* an ultra workflow on a transcript without chapters has finished with the
\* summary generated and youtubeTimestamps failed, and a retry of
\* youtubeTimestamps has ended with the no-chapters error
C25_Witness ==
  /\ wf.pc = "done"
  /\ Len(project.transcript.chapters) = 0
  /\ "youtubeTimestamps" \in DOMAIN wf.jobErrors
  /\ wf.jobErrors["youtubeTimestamps"] = MsgNoChaptersTask
  /\ "summary" \in DOMAIN project.content
  /\ project.content["summary"] = ResponseOf(0)
  /\ \E r \in 1..MaxRuns :
       /\ runs[r].pc = "threw"
       /\ runs[r].job = "youtubeTimestamps"
       /\ runs[r].error = MsgRetryNoChapters

\* the artifacts that differ between project p and project q
WrittenArtifacts(p, q) ==
  {k \in DOMAIN q.content :
     k \notin DOMAIN p.content \/ q.content[k] # p.content[k]}

\* C26: a step of the workflow writes only artifacts of tasks that the
\* plan of the start event entitles; a step of a retry run writes only the
\* artifact of the task of its event, and a run gets past its precondition
\* checks only when the currentPlan of its event entitles that task.
C26_WritesOnlyEntitledArtifacts ==
  /\ [][wf' # wf
          => WrittenArtifacts(project, project') \subseteq
               entitledJobs(eventPlan(wf.userPlan))]_vars
  /\ [][\A r \in 1..MaxRuns :
           (runs'[r] # runs[r] /\ WrittenArtifacts(project, project') # {})
           => /\ runs[r].pc = "save"
              /\ WrittenArtifacts(project, project') = {runs[r].job}]_vars
  /\ [][\A r \in 1..MaxRuns, ev \in events :
           (/\ runs[r].pc = "idle"
            /\ runs'[r].pc \notin {"idle", "threw"}
            /\ ev \notin events')
           => /\ runs'[r].job = ev.job
              /\ ev.job \in entitledJobs(eventPlan(ev.currentPlan))]_vars
  /\ [][WrittenArtifacts(project, project') # {}
          => (wf' # wf \/ runs' # runs)]_vars

\* a retry run has written the titles on the project of a free-plan
\* workflow
C26_Witness ==
  /\ wf.plan = "free"
  /\ wf.pc = "done"
  /\ DOMAIN project.content = {"summary", "titles"}
  /\ \E r \in 1..MaxRuns : runs[r].pc = "done" /\ runs[r].job = "titles"

\* C27: once the transcript is on the project, no step of the workflow, of
\* a retry run or of a server action changes it.
C27_TranscriptImmutable ==
  [][project.transcript # NoTranscript
       => project'.transcript = project.transcript]_vars

\* the workflow and a retry run have both saved artifacts and the project
\* has the transcript the transcription step returned
C27_Witness ==
  /\ wf.pc = "done"
  /\ project.transcript = wf.transcript
  /\ project.transcript # NoTranscript
  /\ \E r \in 1..MaxRuns :
       /\ runs[r].pc = "done"
       /\ project.content[runs[r].job] = runs[r].result
  /\ events = {}
  /\ actionsLeft = 0

\* C30: status = completed implies that no project-level error is recorded.
C30_CompletedHasNoError ==
  project.status = "completed" => project.error = NoError

\* C28: the user on the free plan never has more than 3 projects, deleted
\* ones included.
C28_FreeProjectLimit ==
  Len(userProjects) <= 3

====
